---- MODULE Spec2Model ----
(***************************************************************************)
(* Model of dstest.Emulator, the test helper that starts a Cloud Datastore *)
(* emulator, waits for its endpoint announcement, health-checks it, hands  *)
(* out a client and tears everything down at the end of the test.          *)
(*                                                                         *)
(* Two variants of Emulator exist in the repository and both are modelled; *)
(* the variable `variant` selects which one a run executes:                *)
(*   "kill"     src/emulator.go        (io.Pipe, cmd.Process.Kill cleanup) *)
(*   "graceful" src/unnamed/part_000   (StdoutPipe, POST /shutdown cleanup)*)
(***************************************************************************)
EXTENDS Naturals, Sequences, FiniteSets

\* ------------------------------------------------------------------ bounds
\* Longest emulator output (in lines) a run is checked with.
MaxLines == 3
\* Lines the output pipe holds before the emulator blocks on writing.
PipeCap == 1
\* Retries the retrying HTTP client makes after a retryable probe failure.
MaxRetry == 1
\* Longest list of options a run is checked with.
MaxOpts == 2

\* --------------------------------------------------------------- constants
Variants == {"kill", "graceful"}

\* The variable name captured by envRegexp, and one it does not capture.
HostVar == "DATASTORE_EMULATOR_HOST"
OtherVar == "DATASTORE_DATASET"

\* type envVar struct{ name, value string }; the zero value is what a receive
\* from a closed channel yields.
envVar(n, v) == [name |-> n, value |-> v]
zeroEnvVar == envVar("", "")

\* A line of emulator output, by the parts envRegexp looks at: the bracketed
\* prefix, the number of spaces before "export", NAME, VALUE, and whether the
\* line is longer than bufio.Scanner's token limit (Scan then stops with
\* ErrTooLong).
Line(p, s, n, v, l) == [prefix |-> p, spaces |-> s, name |-> n, value |-> v, long |-> l]
Lines ==
    { Line("[datastore]", 1, HostVar, "localhost:1", FALSE),
      Line("[datastore]", 1, HostVar, "localhost:2", FALSE),
      Line("[datastore]", 1, OtherVar, "x", FALSE),
      Line("[datastore]", 1, HostVar, "localhost:1", TRUE) }

\* All output scripts of at most n lines.
Scripts(n) == UNION { [1..k -> Lines] : k \in 0..n }

\* The outputs the runs with options are checked with: nothing, or one line.
OptScripts == { << >> } \cup { << l >> : l \in Lines }

\* envRegexp = ^\[datastore\] +export (DATASTORE_EMULATOR_HOST)=(.+)$
envRegexpMatches(line) ==
    /\ line.prefix = "[datastore]"
    /\ line.spaces >= 1
    /\ line.name = HostVar
    /\ line.value # ""

\* envRegexp.FindStringSubmatch(line) turned into envVar{m[1], m[2]}.
FindStringSubmatch(line) == envVar(line.name, line.value)

\* ---------------------------------------------------------------- options
\* const ( FirestoreMode Mode = iota; LegacyMode )
FirestoreMode == 0
LegacyMode == 1
\* The default of startTimeout and stopTimeout, in seconds.
DefaultTimeout == 20

\* An Option value: Mode(val), StartTimeout(val) or StopTimeout(val).
Option(k, v) == [kind |-> k, val |-> v]

\* The options the variant v has: the kill variant knows no StopTimeout.  Mode
\* is an int, so a caller can pass a mode that is neither constant.
Options(v) ==
    { Option("Mode", m) : m \in {FirestoreMode, LegacyMode, LegacyMode + 1} }
    \cup { Option("StartTimeout", d) : d \in {0, 5} }
    \cup (IF v = "graceful" THEN { Option("StopTimeout", d) : d \in {0, 5} } ELSE {})

\* All option lists of at most n options for variant v.
OptLists(v, n) == UNION { [1..k -> Options(v)] : k \in 0..n }

\* o := options{mode: FirestoreMode, startTimeout: 20s, stopTimeout: 20s}
DefaultOptions(v) ==
    IF v = "graceful"
    THEN [mode |-> FirestoreMode, startTimeout |-> DefaultTimeout,
          stopTimeout |-> DefaultTimeout]
    ELSE [mode |-> FirestoreMode, startTimeout |-> DefaultTimeout]

\* Mutant of apply: StopTimeout.apply writes the field of StartTimeout.
applyWrongField(cfg, opt) ==
    IF opt.kind = "Mode" THEN [cfg EXCEPT !.mode = opt.val]
    ELSE [cfg EXCEPT !.startTimeout = opt.val]

\* opt.apply(&o) for the three implementations of Option.
apply(cfg, opt) ==
    IF opt.kind = "Mode" THEN [cfg EXCEPT !.mode = opt.val]
    ELSE IF opt.kind = "StartTimeout" THEN [cfg EXCEPT !.startTimeout = opt.val]
    ELSE [cfg EXCEPT !.stopTimeout = opt.val]

\* for _, opt := range opts { opt.apply(&o) }
RECURSIVE ApplyOptions(_, _)
ApplyOptions(cfg, os) ==
    IF os = << >> THEN cfg ELSE ApplyOptions(apply(cfg, Head(os)), Tail(os))

\* The arguments of gcloud before the mode switch.
BaseArgs(v) ==
    IF v = "graceful"
    THEN << "beta", "emulators", "datastore", "start", "--data-dir=",
            "--host-port=localhost:", "--no-store-on-disk" >>
    ELSE << "beta", "emulators", "datastore", "start", "--data-dir=",
            "--no-store-on-disk" >>
FirestoreFlag == "--use-firestore-in-datastore-mode"

\* Mutant of ValidMode: the switch has no default case.
ValidModeNoDefault(m) == m \in Nat

\* switch m := o.mode: the cases that do not end in t.Fatalf.
ValidMode(m) == m \in {FirestoreMode, LegacyMode}

\* switch m := o.mode: what the case of m appends to args.
ModeArgs(a, m) == IF m = FirestoreMode THEN Append(a, FirestoreFlag) ELSE a

MsgMode == "invalid mode %v"

VARIABLES
    variant,        \* which Emulator is running
    opts,           \* the opts argument of Emulator
    o,              \* the local variable o of Emulator
    args,           \* the arguments the emulator command is built with
    script,         \* everything the emulator would print, in order
    nwritten,       \* lines of script the emulator has written so far
    pipe,           \* lines written and not yet read by the scanner
    pwClosed,       \* kill: pw.Close() has been called
    prClosed,       \* kill: pr.Close() has been called
    proc,           \* the emulator process
    exitErr,        \* cmd.Wait() will report / reported an error
    envCh,          \* buffer of the announcement channel (capacity 1)
    envChClosed,    \* close(envCh) has been called
    scanner,        \* position of the output-scanning goroutine
    pending,        \* the envVar the scanner is about to send
    waiter,         \* kill: position of the cmd.Wait goroutine
    pc,             \* position of the foreground (Emulator, test body, teardown)
    cleanups,       \* t.Cleanup registrations, oldest first
    env,            \* the local variable env of Emulator
    recvd,          \* what the select received: "none", "value", "closed"
    retries,        \* retries made by the health probe
    healthy,        \* the health probe returned HTTP 200
    startCtxDone,   \* startCtx is done (deadline, cancel, or parent done)
    ctxDone,        \* the caller's ctx is done
    failed,         \* t.Failed()
    fatal,          \* which t.Fatal ended Emulator ("" if none)
    osEnv,          \* the test process's environment
    client,         \* the datastore client: "none", "open", "closed"
    clientAddr,     \* the endpoint the client is bound to
    closeCount,     \* calls of client.Close()
    sends,          \* completed sends on envCh
    signalled,      \* teardown has sent a kill or a shutdown request
    failedAtTeardown, \* t.Failed() when teardown began
    lateLog         \* a goroutine called t.Log/t.Errorf after the test finished

vars == << variant, opts, o, args, script, nwritten, pipe, pwClosed, prClosed, proc, exitErr,
           envCh, envChClosed, scanner, pending, waiter, pc, cleanups, env,
           recvd, retries, healthy, startCtxDone, ctxDone, failed, fatal,
           osEnv, client, clientAddr, closeCount, sends, signalled,
           failedAtTeardown, lateLog >>

procVars == << proc, exitErr >>
pipeVars == << nwritten, pipe, pwClosed, prClosed >>
chanVars == << envCh, envChClosed, sends >>
scanVars == << scanner, pending >>
fgVars   == << pc, cleanups, env, recvd, retries, healthy, fatal, osEnv,
               client, clientAddr, closeCount, signalled, failedAtTeardown >>
ctxVars  == << startCtxDone, ctxDone >>
cfgVars  == << variant, script, opts, o, args >>

\* The state when Emulator is called, whatever its inputs.
InitState ==
    /\ o = DefaultOptions(variant)
    /\ args = << >>
    /\ nwritten = 0
    /\ pipe = << >>
    /\ pwClosed = FALSE
    /\ prClosed = FALSE
    /\ proc = "none"
    /\ exitErr = FALSE
    /\ envCh = << >>
    /\ envChClosed = FALSE
    /\ scanner = "none"
    /\ pending = zeroEnvVar
    /\ waiter = "none"
    /\ pc = "setup"
    /\ cleanups = << >>
    /\ env = zeroEnvVar
    /\ recvd = "none"
    /\ retries = 0
    /\ healthy = FALSE
    /\ startCtxDone = FALSE
    /\ ctxDone = FALSE
    /\ failed = FALSE
    /\ fatal = ""
    /\ osEnv = [n \in {HostVar} |-> ""]
    /\ client = "none"
    /\ clientAddr = ""
    /\ closeCount = 0
    /\ sends = 0
    /\ signalled = FALSE
    /\ failedAtTeardown = FALSE
    /\ lateLog = FALSE

\* Emulator(ctx, t): no options, any emulator output of up to MaxLines lines.
Init ==
    /\ variant \in Variants
    /\ script \in Scripts(MaxLines)
    /\ opts = << >>
    /\ InitState

\* Emulator(ctx, t, opts...): any list of up to MaxOpts options, an emulator
\* output of at most one line.
OptInit ==
    /\ variant \in Variants
    /\ script \in OptScripts
    /\ opts \in OptLists(variant, MaxOpts)
    /\ InitState


\* ------------------------------------------------------------ test handle
\* The messages of the t.Fatal calls that can end Emulator.
MsgSetup == "%v"
MsgStart == "dstest: couldn't start Cloud Datastore emulator: %s"
MsgTimeout == "dstest: Cloud Datastore emulator didn't start up: %s"
MsgNoAnnounce == "dstest: Cloud Datastore emulator didn't start up"
\* Mutant of MsgHealth: a failed probe reported with the timeout message.
MsgHealthAsTimeout == MsgTimeout
MsgHealth == "dstest: health check failed: %s"
MsgHealthStatus(v) ==
    IF v = "kill" THEN "dstest: health checked failed with HTTP status %s"
                  ELSE "dstest: health check failed with HTTP status %s"
MsgClient == "dstest: error creating Cloud Datastore client: %s"

\* t.Fatal / t.Fatalf in Emulator: the test is marked failed, Emulator is left
\* (its deferred cancel() runs) and the test goes on to its cleanups.
Fatal(msg) ==
    /\ fatal' = msg
    /\ failed' = TRUE
    /\ failedAtTeardown' = TRUE
    /\ startCtxDone' = TRUE
    /\ pc' = "teardown"

\* t.Log from a goroutine: harmless while the test runs, a
\* "Log in goroutine after Test... has completed" panic afterwards.
TLog == lateLog' = (lateLog \/ pc = "finished")

\* if err != nil { t.Errorf(...) } followed by t.Log, from a goroutine.
TErrorfIfThenLog(err) ==
    /\ failed' = (failed \/ (err /\ pc # "finished"))
    /\ lateLog' = (lateLog \/ pc = "finished")

\* if err != nil { t.Errorf(...) } from a goroutine, nothing logged otherwise.
TErrorfIf(err) ==
    /\ failed' = (failed \/ (err /\ pc # "finished"))
    /\ lateLog' = (lateLog \/ (err /\ pc = "finished"))

\* Mutant of Register: the cleanup runs after, not before, the earlier ones.
RegisterBelow(cs, c) == << c >> \o cs

\* t.Cleanup(f): cleanups run last registered, first run.
Register(cs, c) == Append(cs, c)
NextCleanup(cs) == cs[Len(cs)]
Pop(cs) == SubSeq(cs, 1, Len(cs) - 1)

\* Mutant of Setenv: the variable is set to its own name.
SetenvName(e, n, v) == [x \in DOMAIN e \cup {n} |-> IF x = n THEN n ELSE e[x]]

\* t.Setenv(name, value)
Setenv(e, n, v) == [x \in DOMAIN e \cup {n} |-> IF x = n THEN v ELSE e[x]]

\* ------------------------------------------------------------- HTTP
StatusOK == 200
StatusNotFound == 404
StatusUnavailable == 503
\* What one attempt of the retrying client can end with; TransportError
\* stands for an attempt that got no response.
TransportError == 0
Responses == {StatusOK, StatusNotFound, StatusUnavailable, TransportError}
Retryable(r) == r \in {StatusUnavailable, TransportError}

\* Mutant of HealthCheckPasses: the status of the final response is not looked at.
HealthCheckPassesAnyStatus(status) == status \in Responses

\* resp.StatusCode != http.StatusOK is fatal; anything else passes.
HealthCheckPasses(status) == status = StatusOK

\* Mutant of CmdContextDone: the command is bound to startCtx.
CmdContextDoneStartCtx == startCtxDone

\* cmd := exec.CommandContext(ctx, "gcloud", args...): the context the
\* command is bound to is done.
CmdContextDone == ctxDone

\* ------------------------------------------------------------- foreground
\* Options, startCtx, args with the mode switch, exec.CommandContext, the
\* pipe; in the kill variant the scanning goroutine is started here, before
\* cmd.Start.  A start timeout of 0 gives a startCtx that is done at once.
Setup ==
    /\ pc = "setup"
    /\ LET cfg == ApplyOptions(DefaultOptions(variant), opts) IN
       /\ o' = cfg
       /\ \E ok \in BOOLEAN :
             IF variant = "graceful" /\ ~ok
             THEN /\ Fatal(MsgSetup)
                  /\ UNCHANGED << args, scanner >>
             ELSE IF ~ValidMode(cfg.mode)
             THEN /\ Fatal(MsgMode)
                  /\ args' = BaseArgs(variant)
                  /\ UNCHANGED scanner
             ELSE /\ args' = ModeArgs(BaseArgs(variant), cfg.mode)
                  /\ scanner' = IF variant = "kill" THEN "scan" ELSE scanner
                  /\ startCtxDone' = (startCtxDone \/ cfg.startTimeout = 0)
                  /\ pc' = "start"
                  /\ UNCHANGED << fatal, failed, failedAtTeardown >>
    /\ UNCHANGED << variant, script, opts, pipeVars, procVars, chanVars, pending,
                    waiter, cleanups, env, recvd, retries, healthy, ctxDone, osEnv,
                    client, clientAddr, closeCount, signalled, lateLog >>

\* cmd.Start() and what follows it up to the select.
Start ==
    /\ pc = "start"
    /\ \E ok \in BOOLEAN :
          IF ok /\ ~CmdContextDone
          THEN /\ proc' = "running"
               /\ pc' = "select"
               /\ IF variant = "kill"
                  THEN /\ waiter' = "waiting"
                       /\ cleanups' = Register(cleanups, "kill")
                       /\ UNCHANGED scanner
                  ELSE /\ scanner' = "scan"
                       /\ UNCHANGED << waiter, cleanups >>
               /\ UNCHANGED << fatal, failed, failedAtTeardown, startCtxDone >>
          ELSE /\ Fatal(MsgStart)
               /\ UNCHANGED << proc, waiter, cleanups, scanner >>
    /\ UNCHANGED << cfgVars, pipeVars, exitErr, chanVars, pending, env, recvd,
                    retries, healthy, ctxDone, osEnv, client, clientAddr, closeCount,
                    signalled, lateLog >>

\* select { case env = <-envCh: ... }, and in the graceful variant the check
\* of env.name and env.value that follows the select.
SelectRecv ==
    /\ pc = "select"
    /\ envCh # << >> \/ envChClosed
    /\ LET v == IF envCh # << >> THEN Head(envCh) ELSE zeroEnvVar IN
          /\ env' = v
          /\ recvd' = IF envCh # << >> THEN "value" ELSE "closed"
          /\ envCh' = IF envCh # << >> THEN Tail(envCh) ELSE envCh
          /\ IF variant = "graceful" /\ (v.name = "" \/ v.value = "")
             THEN Fatal(MsgNoAnnounce)
             ELSE /\ pc' = "probe"
                  /\ UNCHANGED << fatal, failed, failedAtTeardown, startCtxDone >>
    /\ UNCHANGED << cfgVars, pipeVars, procVars, envChClosed, sends, scanVars,
                    waiter, cleanups, retries, healthy, ctxDone, osEnv, client,
                    clientAddr, closeCount, signalled, lateLog >>

\* select { ... case <-startCtx.Done(): t.Fatalf(...) }
SelectTimeout ==
    /\ pc = "select"
    /\ startCtxDone
    /\ Fatal(MsgTimeout)
    /\ UNCHANGED << cfgVars, pipeVars, procVars, chanVars, scanVars, waiter,
                    cleanups, env, recvd, retries, healthy, ctxDone, osEnv, client,
                    clientAddr, closeCount, signalled, lateLog >>

\* One attempt of the health probe GET http://<env.value>/ under startCtx, and,
\* once it passed, everything up to datastore.NewClient.
HealthCheck ==
    /\ pc = "probe"
    /\ \E r \in Responses :
          LET status == IF startCtxDone \/ env.value = "" \/ proc # "running"
                        THEN TransportError ELSE r
              giveUp == startCtxDone \/ env.value = "" \/ retries >= MaxRetry
          IN
          IF Retryable(status)
          THEN IF giveUp
               THEN /\ Fatal(MsgHealth)
                    /\ UNCHANGED << retries, healthy, cleanups, osEnv >>
               ELSE /\ retries' = retries + 1
                    /\ UNCHANGED << pc, fatal, failed, failedAtTeardown, startCtxDone,
                                    healthy, cleanups, osEnv >>
          ELSE IF ~HealthCheckPasses(status)
               THEN /\ Fatal(MsgHealthStatus(variant))
                    /\ UNCHANGED << retries, healthy, cleanups, osEnv >>
               ELSE /\ healthy' = (healthy \/ status = StatusOK)
                    /\ cleanups' = IF variant = "graceful"
                                   THEN Register(cleanups, "shutdown") ELSE cleanups
                    /\ osEnv' = Setenv(osEnv, env.name, env.value)
                    /\ pc' = "newclient"
                    /\ UNCHANGED << retries, fatal, failed, failedAtTeardown, startCtxDone >>
    /\ UNCHANGED << cfgVars, pipeVars, procVars, chanVars, scanVars, waiter,
                    env, recvd, ctxDone, client, clientAddr, closeCount, signalled,
                    lateLog >>

\* datastore.NewClient, which finds the endpoint in the environment, the
\* registration of the closing cleanup, and the return of Emulator.
NewClient ==
    /\ pc = "newclient"
    /\ \E ok \in BOOLEAN :
          IF ok
          THEN /\ client' = "open"
               /\ clientAddr' = IF HostVar \in DOMAIN osEnv THEN osEnv[HostVar] ELSE ""
               /\ cleanups' = Register(cleanups, "close")
               /\ startCtxDone' = TRUE
               /\ pc' = "body"
               /\ UNCHANGED << fatal, failed, failedAtTeardown >>
          ELSE /\ Fatal(MsgClient)
               /\ UNCHANGED << client, clientAddr, cleanups >>
    /\ UNCHANGED << cfgVars, pipeVars, procVars, chanVars, scanVars, waiter,
                    env, recvd, retries, healthy, ctxDone, osEnv, closeCount, signalled,
                    lateLog >>

\* The test that called Emulator runs and ends, passing or failing.
TestBody ==
    /\ pc = "body"
    /\ \E f \in BOOLEAN :
          /\ failed' = (failed \/ f)
          /\ failedAtTeardown' = (failed \/ f)
    /\ pc' = "teardown"
    /\ UNCHANGED << cfgVars, pipeVars, procVars, chanVars, scanVars, waiter,
                    cleanups, env, recvd, retries, healthy, ctxVars, fatal, osEnv,
                    client, clientAddr, closeCount, signalled, lateLog >>


\* --------------------------------------------------------------- teardown
\* The cleanup registered last in both variants: client.Close(), whose error
\* is reported with t.Errorf in the kill variant and t.Logf in the graceful one.
CleanupClose ==
    /\ pc = "teardown"
    /\ cleanups # << >>
    /\ NextCleanup(cleanups) = "close"
    /\ client' = "closed"
    /\ closeCount' = closeCount + 1
    /\ \E err \in BOOLEAN : failed' = (failed \/ (err /\ variant = "kill"))
    /\ cleanups' = Pop(cleanups)
    /\ UNCHANGED << cfgVars, pipeVars, procVars, chanVars, scanVars, waiter,
                    pc, env, recvd, retries, healthy, ctxVars, fatal, osEnv,
                    clientAddr, signalled, failedAtTeardown, lateLog >>

\* Kill variant: cmd.Process.Kill(), which fails once cmd.Wait has reaped the
\* process, then pw.Close(), which drops what the scanner has not read.
CleanupKill ==
    /\ pc = "teardown"
    /\ cleanups # << >>
    /\ NextCleanup(cleanups) = "kill"
    /\ signalled' = TRUE
    /\ failed' = (failed \/ waiter = "done")
    /\ proc' = IF proc = "running" /\ waiter # "done" THEN "killed" ELSE proc
    /\ pwClosed' = TRUE
    /\ pipe' = << >>
    /\ cleanups' = Pop(cleanups)
    /\ UNCHANGED << cfgVars, nwritten, prClosed, exitErr, chanVars, scanVars,
                    waiter, pc, env, recvd, retries, healthy, ctxVars, fatal, osEnv,
                    client, clientAddr, closeCount, failedAtTeardown, lateLog >>

\* Graceful variant: POST http://<env.value>/shutdown under ctx with
\* stopTimeout.  Any failure is logged and the cleanup returns; on HTTP 200 it
\* goes on to wg.Wait().
CleanupShutdown ==
    /\ pc = "teardown"
    /\ cleanups # << >>
    /\ NextCleanup(cleanups) = "shutdown"
    /\ signalled' = TRUE
    /\ \E r \in Responses :
          LET status == IF ctxDone \/ o.stopTimeout = 0 \/ proc # "running"
                        THEN TransportError ELSE r IN
          IF status = StatusOK
          THEN /\ proc' = "stopping"
               /\ pc' = "wgwait"
          ELSE UNCHANGED << proc, pc >>
    /\ cleanups' = Pop(cleanups)
    /\ UNCHANGED << cfgVars, pipeVars, exitErr, chanVars, scanVars, waiter,
                    env, recvd, retries, healthy, ctxVars, failed, fatal, osEnv,
                    client, clientAddr, closeCount, failedAtTeardown, lateLog >>

\* wg.Wait() returns once the scanning goroutine has called wg.Done().
WgWait ==
    /\ pc = "wgwait"
    /\ scanner = "done"
    /\ pc' = "teardown"
    /\ UNCHANGED << cfgVars, pipeVars, procVars, chanVars, scanVars, waiter,
                    cleanups, env, recvd, retries, healthy, ctxVars, failed, fatal,
                    osEnv, client, clientAddr, closeCount, signalled,
                    failedAtTeardown, lateLog >>

\* All cleanups have run: the test has finished.
TeardownDone ==
    /\ pc = "teardown"
    /\ cleanups = << >>
    /\ pc' = "finished"
    /\ UNCHANGED << cfgVars, pipeVars, procVars, chanVars, scanVars, waiter,
                    cleanups, env, recvd, retries, healthy, ctxVars, failed, fatal,
                    osEnv, client, clientAddr, closeCount, signalled,
                    failedAtTeardown, lateLog >>

\* ------------------------------------------------------ scanning goroutine
\* One round of for s.Scan() { ... } that found a line (or a line too long for
\* the scanner, which ends the loop with an error and runs the code after it).
ScanLine ==
    /\ scanner = "scan"
    /\ pipe # << >>
    /\ LET line == Head(pipe) IN
          IF line.long
          THEN /\ TErrorfIf(TRUE)
               /\ envChClosed' = TRUE
               /\ IF variant = "kill"
                  THEN /\ prClosed' = TRUE
                       /\ pipe' = << >>
                       /\ scanner' = "done"
                  ELSE /\ pipe' = Tail(pipe)
                       /\ scanner' = "drain"
                       /\ UNCHANGED prClosed
               /\ UNCHANGED pending
          ELSE /\ TLog
               /\ pipe' = Tail(pipe)
               /\ IF envRegexpMatches(line)
                  THEN /\ pending' = FindStringSubmatch(line)
                       /\ scanner' = "send"
                  ELSE UNCHANGED << pending, scanner >>
               /\ UNCHANGED << failed, envChClosed, prClosed >>
    /\ UNCHANGED << cfgVars, nwritten, pwClosed, procVars, envCh, sends,
                    waiter, fgVars, ctxVars >>

\* envCh <- envVar{m[1], m[2]}: blocks while the one-slot buffer is full.
SendEnv ==
    /\ scanner = "send"
    /\ Len(envCh) < 1
    /\ envCh' = Append(envCh, pending)
    /\ sends' = sends + 1
    /\ scanner' = "scan"
    /\ UNCHANGED << cfgVars, pipeVars, procVars, envChClosed, pending, waiter,
                    fgVars, ctxVars, failed, lateLog >>

\* s.Scan() returns false at the end of the stream: in the kill variant once
\* pw is closed, in the graceful variant once the process has exited and the
\* pipe is empty.  Then the code after the loop up to the next blocking call.
ScanEOF ==
    /\ scanner = "scan"
    /\ pipe = << >>
    /\ IF variant = "kill"
       THEN /\ pwClosed
            /\ prClosed' = TRUE
            /\ scanner' = "done"
       ELSE /\ proc = "exited"
            /\ scanner' = "wait"
            /\ UNCHANGED prClosed
    /\ envChClosed' = TRUE
    /\ UNCHANGED << cfgVars, nwritten, pipe, pwClosed, procVars, envCh, sends,
                    pending, waiter, fgVars, ctxVars, failed, lateLog >>

\* Graceful variant: io.Copy(io.Discard, pr) after a scanner error.
Drain ==
    /\ scanner = "drain"
    /\ IF pipe # << >>
       THEN /\ pipe' = << >>
            /\ UNCHANGED scanner
       ELSE /\ proc = "exited"
            /\ scanner' = "wait"
            /\ UNCHANGED pipe
    /\ UNCHANGED << cfgVars, nwritten, pwClosed, prClosed, procVars, chanVars,
                    pending, waiter, fgVars, ctxVars, failed, lateLog >>

\* Graceful variant: cmd.Wait() in the scanning goroutine, its t.Errorf and
\* t.Log, and the deferred wg.Done().
ScannerWait ==
    /\ scanner = "wait"
    /\ proc = "exited"
    /\ TErrorfIfThenLog(exitErr)
    /\ scanner' = "done"
    /\ UNCHANGED << cfgVars, pipeVars, procVars, chanVars, pending, waiter,
                    fgVars, ctxVars >>

\* ---------------------------------------------------------- wait goroutine
\* Kill variant: cmd.Wait() returns once the process has exited and its output
\* has been copied to pw (or pw or pr is closed); then t.Errorf and t.Log.
WaitReturn ==
    /\ waiter = "waiting"
    /\ proc = "exited"
    /\ pipe = << >> \/ pwClosed \/ prClosed
    /\ \E copyErr \in BOOLEAN :
          /\ copyErr => (pwClosed \/ prClosed)
          /\ TErrorfIfThenLog(exitErr \/ copyErr)
    /\ waiter' = "done"
    /\ UNCHANGED << cfgVars, pipeVars, procVars, chanVars, scanVars, fgVars,
                    ctxVars >>

\* ------------------------------------------------------------ environment
\* The emulator prints its next line.
ProcWrite ==
    /\ proc \in {"running", "stopping"}
    /\ nwritten < Len(script)
    /\ Len(pipe) < PipeCap
    /\ ~pwClosed /\ ~prClosed
    /\ pipe' = Append(pipe, script[nwritten + 1])
    /\ nwritten' = nwritten + 1
    /\ UNCHANGED << cfgVars, pwClosed, prClosed, procVars, chanVars, scanVars,
                    waiter, fgVars, ctxVars, failed, lateLog >>

\* The emulator exits on its own.
ProcCrash ==
    /\ proc = "running"
    /\ proc' = "exited"
    /\ exitErr' \in BOOLEAN
    /\ UNCHANGED << cfgVars, pipeVars, chanVars, scanVars, waiter, fgVars,
                    ctxVars, failed, lateLog >>

\* The emulator exits after a kill signal or an accepted shutdown request.
ProcDie ==
    /\ proc \in {"killed", "stopping"}
    /\ proc' = "exited"
    /\ \E e \in BOOLEAN : exitErr' = (e \/ proc = "killed")
    /\ UNCHANGED << cfgVars, pipeVars, chanVars, scanVars, waiter, fgVars,
                    ctxVars, failed, lateLog >>

\* The start deadline (context.WithTimeout(ctx, o.startTimeout)) expires.
StartTimeout ==
    /\ pc \in {"start", "select", "probe", "newclient"}
    /\ ~startCtxDone
    /\ startCtxDone' = TRUE
    /\ UNCHANGED << cfgVars, pipeVars, procVars, chanVars, scanVars, waiter,
                    fgVars, ctxDone, failed, lateLog >>

\* The caller's ctx becomes done, and startCtx, derived from it, with it.
CtxCancel ==
    /\ ~ctxDone
    /\ ctxDone' = TRUE
    /\ startCtxDone' = TRUE
    /\ UNCHANGED << cfgVars, pipeVars, procVars, chanVars, scanVars, waiter,
                    fgVars, failed, lateLog >>

\* os/exec kills the process once the context of the command is done.
ContextKill ==
    /\ CmdContextDone
    /\ proc \in {"running", "stopping"}
    /\ proc' = "killed"
    /\ UNCHANGED << cfgVars, pipeVars, exitErr, chanVars, scanVars, waiter,
                    fgVars, ctxVars, failed, lateLog >>

Next ==
    \/ Setup \/ Start \/ SelectRecv \/ SelectTimeout \/ HealthCheck \/ NewClient
    \/ TestBody \/ CleanupClose \/ CleanupKill \/ CleanupShutdown \/ WgWait
    \/ TeardownDone
    \/ ScanLine \/ SendEnv \/ ScanEOF \/ Drain \/ ScannerWait
    \/ WaitReturn
    \/ ProcWrite \/ ProcCrash \/ ProcDie \/ StartTimeout \/ CtxCancel
    \/ ContextKill

Spec == Init /\ [][Next]_vars

\* The same program, checked with options and short emulator outputs.
OptSpec == OptInit /\ [][Next]_vars


\* The system's own steps: the foreground, the two goroutines and the kill
\* by os/exec.  The emulator's exit after a kill or an accepted shutdown is
\* included; its
\* writing, its exiting on its own, the deadline and the caller's ctx are not.
Progress ==
    \/ Setup \/ Start \/ SelectRecv \/ SelectTimeout \/ HealthCheck \/ NewClient
    \/ TestBody \/ CleanupClose \/ CleanupKill \/ CleanupShutdown \/ WgWait
    \/ TeardownDone
    \/ ScanLine \/ SendEnv \/ ScanEOF \/ Drain \/ ScannerWait
    \/ WaitReturn
    \/ ProcDie \/ ContextKill

\* Spec under fair scheduling: goroutines that can run do run, and a process
\* that was killed or accepted a shutdown request exits.
FairSpec == Init /\ [][Next]_vars /\ WF_vars(Progress)

\* ================================================================ claims
\* Indices of the lines of s the scanner would match.
MatchingIdx(s) == { i \in 1..Len(s) : ~s[i].long /\ envRegexpMatches(s[i]) }
\* The announcement of the first matching line of s.
FirstAnnouncement(s) ==
    LET i == CHOOSE k \in MatchingIdx(s) : \A j \in MatchingIdx(s) : k <= j
    IN  envVar(s[i].name, s[i].value)
\* The emulator process has been told to die or is gone.
Terminated == proc \in {"none", "killed", "exited"}

\* C1: announcement received -> health probe returned HTTP 200 -> client
\* constructed, in that order: a client exists only in runs whose probe
\* returned 200, the probe returned 200 only in runs that received an
\* announcement, and the client handed to the test is bound to the announced
\* endpoint (the one of the first matching output line).
C1_ClientOnlyAfterHealth ==
    /\ client # "none" => healthy
    /\ healthy => (recvd = "value" /\ env.value # "")
    /\ pc \in {"newclient", "body"} => healthy
    /\ pc = "body" => client = "open"
    /\ client # "none" =>
          /\ MatchingIdx(script) # {}
          /\ env = FirstAnnouncement(script)
          /\ clientAddr = env.value

\* C1 witness: the test body runs with a client bound to the announced
\* endpoint after a probe that returned 200.
C1_Witness ==
    /\ pc = "body"
    /\ client = "open"
    /\ healthy
    /\ clientAddr = "localhost:2"


\* C2: a run that ended with the startup-timeout error has, once teardown has
\* finished, no live emulator process: the process was killed or has exited.
C2_TimeoutLeavesNoProcess ==
    (pc = "finished" /\ fatal = MsgTimeout) => Terminated

\* C3: in a run that returned a client, once teardown has finished the client
\* is closed and the emulator process was killed or has exited, whatever the
\* outcome of the shutdown request.
C3_ClientClosedProcessGone ==
    (pc = "finished" /\ client # "none") => (client = "closed" /\ Terminated)

\* C4: a receive from the closed, empty announcement channel is never taken
\* for an announcement: the run fails with the no-announcement error, and no
\* health probe is issued against an empty address.
C4_ClosedChannelIsNoAnnouncement ==
    /\ recvd = "closed" => fatal = MsgNoAnnounce
    /\ pc = "probe" => env.value # ""

\* C5: teardown always completes: once the test's cleanups start running,
\* they eventually have all run.
C5_TeardownCompletes == (pc = "teardown") ~> (pc = "finished")

\* C6: a teardown that signalled the emulator (Kill, or POST /shutdown whatever
\* its outcome) returns only after cmd.Wait and the scanning goroutine have
\* completed, and no goroutine logs after the test has finished.
C6_TeardownJoinsGoroutines ==
    /\ (pc = "finished" /\ signalled) =>
          /\ scanner = "done"
          /\ variant = "kill" => waiter = "done"
    /\ signalled => ~lateLog

\* C7: no error at teardown changes the test's outcome: the failed flag
\* after teardown equals the failed flag when teardown began.
C7_TeardownKeepsOutcome ==
    pc = "finished" => failed = failedAtTeardown

\* C8: exactly one announcement is honoured: the endpoint received is the one
\* of the first matching line, and a later matching line has no effect on the
\* scanning goroutine: once the announcement has been received, the goroutine
\* is never blocked on sending another one into the full channel, which
\* nobody will receive from again.
C8_LaterMatchHasNoEffect ==
    /\ recvd = "value" =>
          /\ MatchingIdx(script) # {}
          /\ env = FirstAnnouncement(script)
    /\ ~(recvd = "value" /\ scanner = "send" /\ Len(envCh) = 1)

\* C9: the startup-timeout error is reported only while no announcement has
\* been received; after an announcement, a failed probe is reported as a
\* health-check failure; and the probe is bounded by the start deadline: once
\* startCtx is done, probing can only end in the health-check failure.
C9_HealthFailureIsNotTimeout ==
    /\ [](/\ fatal = MsgTimeout => (recvd = "none" /\ ~healthy)
          /\ (recvd = "value" /\ ~healthy /\ fatal # "") =>
                fatal \in {MsgHealth, MsgHealthStatus(variant)})
    /\ [][(pc = "probe" /\ pc' # "probe") =>
             /\ (pc' = "teardown") =>
                   fatal' \in {MsgHealth, MsgHealthStatus(variant)}
             /\ startCtxDone => (pc' = "teardown" /\ fatal' = MsgHealth)]_vars

\* C9 witness: an announcement was received and the run then failed with the
\* health-check error after the start deadline had passed or retries ran out.
C9_Witness ==
    /\ recvd = "value"
    /\ fatal = MsgHealth
    /\ retries = MaxRetry

\* C10: in a run that constructed a client, teardown closes it exactly once,
\* and before teardown sends any termination signal (Kill, POST /shutdown).
C10_CloseOnceBeforeSignal ==
    /\ closeCount <= 1
    /\ client = "none" => closeCount = 0
    /\ (client # "none" /\ signalled) => (client = "closed" /\ closeCount = 1)
    /\ (client # "none" /\ pc = "finished") => (client = "closed" /\ closeCount = 1)

\* C10 witness: teardown has signalled the emulator of a run whose client it
\* closed before, and the shutdown request was refused.
C10_Witness ==
    /\ signalled
    /\ client = "closed"
    /\ closeCount = 1
    /\ pc = "finished"
    /\ proc = "running"


\* Indices of the options of kind k in opts.
OptIdx(k) == { i \in 1..Len(opts) : opts[i].kind = k }
\* The value of the last option of kind k in opts, or d when there is none.
LastVal(k, d) ==
    IF OptIdx(k) = {} THEN d
    ELSE opts[CHOOSE i \in OptIdx(k) : \A j \in OptIdx(k) : j <= i].val

\* C11: the effective configuration is the defaults with the options applied
\* in argument order: each field holds the value of the last option of its
\* kind, or its default when there is none (so an option changes only its own
\* field); two options of different kinds give the same configuration in
\* either order; the configuration is in place before the process is spawned
\* and, opts being fixed, is the same in every later state.
C11_OptionsLastWins ==
    /\ pc = "setup" => (o = DefaultOptions(variant) /\ proc = "none")
    /\ pc # "setup" =>
          /\ o.mode = LastVal("Mode", FirestoreMode)
          /\ o.startTimeout = LastVal("StartTimeout", DefaultTimeout)
          /\ variant = "graceful" => o.stopTimeout = LastVal("StopTimeout", DefaultTimeout)
          /\ (Len(opts) = 2 /\ opts[1].kind # opts[2].kind) =>
                o = ApplyOptions(DefaultOptions(variant), << opts[2], opts[1] >>)

\* C11 witness: the process runs under a configuration in which the second of
\* two options of one kind has overridden the first.
C11_Witness ==
    /\ proc = "running"
    /\ Len(opts) = 2
    /\ opts[1].kind = "StartTimeout"
    /\ opts[2].kind = "StartTimeout"
    /\ opts[1].val # opts[2].val
    /\ o.startTimeout = opts[2].val


\* C12: the scanning goroutine never blocks for good on sending to the
\* one-slot announcement channel: it is never at the send with the channel
\* full once the foreground has left the select, the only receive there is.
C12_ScannerNeverStuckOnSend ==
    ~(scanner = "send" /\ Len(envCh) = 1 /\ pc \notin {"setup", "start", "select"})


\* C13: the announcement channel is written at most once per run: the number
\* of completed sends on envCh is at most 1 in every reachable state.
C13_AtMostOneSend == sends <= 1


\* C14: a run that failed fatally after the spawn, for want of an announcement
\* or in the health check, still shuts the emulator down: when teardown has
\* finished the run has failed and the process was killed or has exited.
C14_FatalStartupStillShutsDown ==
    (/\ pc = "finished"
     /\ proc # "none"
     /\ fatal \in {MsgNoAnnounce, MsgHealth, MsgHealthStatus(variant)})
    => (failed /\ Terminated)


\* C15: in a run whose startup failed (launch failure, startup timeout, no
\* announcement, health-check failure) the scanning goroutine, if one was
\* started, has terminated when teardown completes.
C15_StartupFailureJoinsScanner ==
    (/\ pc = "finished"
     /\ fatal \in {MsgStart, MsgTimeout, MsgNoAnnounce, MsgHealth,
                   MsgHealthStatus(variant)})
    => scanner \in {"none", "done"}


\* C16: the start deadline by itself never terminates the emulator: the
\* process is killed only by teardown or once the caller's ctx is done, it is
\* asked to shut down only by teardown, and after Emulator has returned, with
\* startCtx cancelled, it keeps running (unless it exits on its own) while the
\* caller's ctx is not done.
C16_StartCtxDoesNotKill ==
    /\ [][(proc \in {"running", "stopping"} /\ proc' = "killed")
             => (ctxDone \/ pc = "teardown")]_vars
    /\ [][(proc = "running" /\ proc' = "stopping") => pc = "teardown"]_vars
    /\ []((pc = "body" /\ ~ctxDone) => (startCtxDone /\ proc \in {"running", "exited"}))

\* C16 witness: Emulator has returned, startCtx is cancelled, the caller's ctx
\* is not done and the emulator is running.
C16_Witness ==
    /\ pc = "body"
    /\ startCtxDone
    /\ ~ctxDone
    /\ proc = "running"


\* The environment of the test process before Emulator is called.
InitialEnv == [n \in {HostVar} |-> ""]

\* C17: the environment variable is injected only on the success path: while
\* the probe has not returned 200 (so in every run that failed before health
\* confirmation) the environment is as it was; once it has, and through the
\* construction of the client and the test body, DATASTORE_EMULATOR_HOST holds
\* the address of the received announcement, the one that was probed and the
\* one the client is bound to.
C17_SetenvOnlyAfterHealth ==
    /\ ~healthy => osEnv = InitialEnv
    /\ (fatal # "" /\ fatal # MsgClient) => osEnv = InitialEnv
    /\ (healthy /\ pc \in {"newclient", "body"}) =>
          /\ recvd = "value"
          /\ env.name = HostVar
          /\ osEnv = [n \in {HostVar} |-> env.value]
    /\ client # "none" => clientAddr = env.value

\* C17 witness: the test body runs with the variable set to the announced
\* address.
C17_Witness ==
    /\ pc = "body"
    /\ env.value = "localhost:2"
    /\ osEnv[HostVar] = "localhost:2"


\* The arguments in a, as a set.
ArgSet(a) == { a[i] : i \in 1..Len(a) }

\* C18: with a mode that is neither FirestoreMode nor LegacyMode Emulator
\* fails fatally before anything is spawned: such a run never has a process, a
\* scanning or waiting goroutine, or a registered cleanup.  A process is only
\* ever spawned with a valid mode, and its command line is the base arguments
\* followed by the firestore flag in FirestoreMode and by nothing in LegacyMode.
C18_InvalidModeSpawnsNothing ==
    /\ (pc # "setup" /\ o.mode \notin {FirestoreMode, LegacyMode}) =>
          /\ fatal \in {MsgMode, MsgSetup}
          /\ failed
          /\ proc = "none"
          /\ scanner = "none"
          /\ waiter = "none"
          /\ cleanups = << >>
          /\ ~signalled
    /\ fatal = MsgMode => o.mode \notin {FirestoreMode, LegacyMode}
    /\ proc # "none" =>
          /\ o.mode \in {FirestoreMode, LegacyMode}
          /\ o.mode = FirestoreMode => args = BaseArgs(variant) \o << FirestoreFlag >>
          /\ o.mode = LegacyMode =>
                (args = BaseArgs(variant) /\ FirestoreFlag \notin ArgSet(args))

\* C18 witness: a run with an invalid mode has finished, failed with the
\* invalid-mode message, without a process.
C18_Witness ==
    /\ pc = "finished"
    /\ fatal = MsgMode
    /\ o.mode = LegacyMode + 1
    /\ proc = "none"

====
